---- MODULE Spec2Model ----
(***************************************************************************)
(* A model of marlin: the shape tessellator (entities.rs), the colour      *)
(* type (colors.rs) and the scene/button navigation state machine          *)
(* MasterWindowState (marlin.rs) as driven by main (main.rs).              *)
(*                                                                         *)
(* Numbers.  f32/f64 values are modelled as exact values                   *)
(*     (a + r * t(deg)) / d                                                *)
(* with a, r integers, d a positive integer and t one of "one", "cos",     *)
(* "sin" applied to a whole number of degrees.  A plain rational has       *)
(* r = 0.  Rounding of f32/f64 arithmetic is not modelled; the casts       *)
(* "as f32" and "as f64" are therefore exact.                              *)
(***************************************************************************)
EXTENDS Integers, Sequences, FiniteSets, TLC

(***************************************************************************)
(* Bounds of the model.                                                    *)
(***************************************************************************)
\* how many add_shape / add_entity / add_button calls main makes
MaxAdds == 2
\* longest vertex list handed to the tessellator
MaxVertices == 5
\* the longest slice of colors handed to Color::mix
MaxColors == 3

(***************************************************************************)
(* Arithmetic.                                                             *)
(***************************************************************************)
RECURSIVE GCD(_, _)
GCD(m, n) == IF n = 0 THEN m ELSE GCD(n, m % n)

Abs(n) == IF n < 0 THEN -n ELSE n

\* the canonical form of (a + r * t(deg)) / d, d > 0
Real(a, r, d, t, deg) ==
    LET g == GCD(GCD(Abs(a), Abs(r)), d) IN
    [a |-> a \div g, r |-> r \div g, d |-> d \div g,
     t |-> IF r = 0 THEN "one" ELSE t, deg |-> IF r = 0 THEN 0 ELSE deg]

Rat(n, d) == Real(n, 0, d, "one", 0)
Num(n) == Rat(n, 1)

RAdd(x, y) == Real(x.a * y.d + y.a * x.d, 0, x.d * y.d, "one", 0)
RNeg(x) == Real(-x.a, -x.r, x.d, x.t, x.deg)
RSub(x, y) == RAdd(x, RNeg(y))
RMul(x, y) == Real(x.a * y.a, 0, x.d * y.d, "one", 0)
\* x / y for y > 0; x may carry a trigonometric term
RDiv(x, y) == Real(x.a * y.d, x.r * y.d, x.d * y.a, x.t, x.deg)
RAbs(x) == Real(Abs(x.a), 0, x.d, "one", 0)
RLt(x, y) == x.a * y.d < y.a * x.d
RLe(x, y) == x.a * y.d <= y.a * x.d
RGe(x, y) == RLe(y, x)
RGt(x, y) == RLt(y, x)
\* "as u32" of a non-negative value: truncation
RTrunc(x) == x.a \div x.d
\* c + radius * t(deg), for plain c and radius
RTrig(c, radius, t, deg) ==
    Real(c.a * radius.d, radius.a * c.d, c.d * radius.d, t, deg)

(***************************************************************************)
(* colors.rs                                                               *)
(***************************************************************************)
BLACK == [channels |-> <<0, 0, 0, 255>>]
WHITE == [channels |-> <<255, 255, 255, 255>>]
RED == [channels |-> <<235, 64, 52, 255>>]
BLUE == [channels |-> <<20, 152, 252, 255>>]

\* rgba_value_within_bounds that lets 256 pass
rgba_value_within_bounds_loose(value) == value <= 256

rgba_value_within_bounds(value) == value <= 255

\* a panic is the value [panic |-> message]
with_alpha(r, g, b, a) ==
    IF ~rgba_value_within_bounds(r) THEN [panic |-> "r value out of bounds"]
    ELSE IF ~rgba_value_within_bounds(g) THEN [panic |-> "g value out of bounds"]
    ELSE IF ~rgba_value_within_bounds(b) THEN [panic |-> "b value out of bounds"]
    ELSE IF ~rgba_value_within_bounds(a) THEN [panic |-> "a value out of bounds"]
    ELSE [channels |-> <<r, g, b, a>>]

Color_new(r, g, b) == with_alpha(r, g, b, 255)

in_percentages(color) ==
    <<Rat(color.channels[1], 255), Rat(color.channels[2], 255),
      Rat(color.channels[3], 255)>>

\* mixing_channels[i] after the first loop has added the first n colors; a
\* u32 sum of channels of at most 255 each, far from wrapping for the slices
\* mixed here
RECURSIVE ChannelSum(_, _, _)
ChannelSum(colors, i, n) ==
    IF n = 0 THEN 0
    ELSE ChannelSum(colors, i, n - 1) + colors[n].channels[i]

\* channel i of a mix that averages each color with the mix of those before it
RECURSIVE RunningAverage(_, _, _)
RunningAverage(colors, i, n) ==
    IF n = 1 THEN colors[1].channels[i]
    ELSE (RunningAverage(colors, i, n - 1) + colors[n].channels[i]) \div 2

\* mix as a running pairwise average
mix_running(colors) ==
    IF Len(colors) = 0 THEN [panic |-> "attempt to divide by zero"]
    ELSE with_alpha(RunningAverage(colors, 1, Len(colors)),
                    RunningAverage(colors, 2, Len(colors)),
                    RunningAverage(colors, 3, Len(colors)),
                    RunningAverage(colors, 4, Len(colors)))

\* mix that hands its first three channels to Color::new
mix_opaque(colors) ==
    IF Len(colors) = 0 THEN [panic |-> "attempt to divide by zero"]
    ELSE LET mixing_channels ==
                 [i \in 1..4 |-> ChannelSum(colors, i, Len(colors)) \div Len(colors)]
         IN  Color_new(mixing_channels[1], mixing_channels[2], mixing_channels[3])

\* mix that answers the zeroed channels when it is given no color
mix_guarded(colors) ==
    IF Len(colors) = 0 THEN with_alpha(0, 0, 0, 0)
    ELSE LET mixing_channels ==
                 [i \in 1..4 |-> ChannelSum(colors, i, Len(colors)) \div Len(colors)]
         IN  with_alpha(mixing_channels[1], mixing_channels[2],
                        mixing_channels[3], mixing_channels[4])

\* Color::mix; the second loop divides by colors.len(), which panics for 0
mix(colors) ==
    IF Len(colors) = 0 THEN [panic |-> "attempt to divide by zero"]
    ELSE LET mixing_channels ==
                 [i \in 1..4 |-> ChannelSum(colors, i, Len(colors)) \div Len(colors)]
         IN  with_alpha(mixing_channels[1], mixing_channels[2],
                        mixing_channels[3], mixing_channels[4])

\* impl From<[f32; 3]> for Color
Color_from(rgb) ==
    Color_new(RTrunc(RMul(rgb[1], Num(255))), RTrunc(RMul(rgb[2], Num(255))),
              RTrunc(RMul(rgb[3], Num(255))))

(***************************************************************************)
(* entities.rs: Vertex, ShapeKind, EntityBuilder, Entity                   *)
(***************************************************************************)
Vertex_new(x, y, z, color) ==
    [position |-> <<x, y, z>>, color |-> in_percentages(color)]

Triangle == [tag |-> "Triangle"]
Rectangle == [tag |-> "Rectangle"]
Circle(radius) == [tag |-> "Circle", radius |-> radius]

requisite_points(kind) ==
    CASE kind.tag = "Triangle" -> 3
      [] kind.tag = "Rectangle" -> 4
      [] kind.tag = "Circle" -> 1

None == [tag |-> "None"]
VertexOverspecification(kind) == [tag |-> "VertexOverspecification", kind |-> kind]
VertexUnderspecification(kind) == [tag |-> "VertexUnderspecification", kind |-> kind]

\* valid_vertex_number with the two failing arms exchanged
valid_vertex_number_swapped(kind, num_vertices) ==
    IF num_vertices < requisite_points(kind) THEN VertexOverspecification(kind)
    ELSE IF num_vertices > requisite_points(kind) THEN VertexUnderspecification(kind)
    ELSE None

valid_vertex_number(kind, num_vertices) ==
    IF num_vertices < requisite_points(kind) THEN VertexUnderspecification(kind)
    ELSE IF num_vertices > requisite_points(kind) THEN VertexOverspecification(kind)
    ELSE None

\* the exclusive upper end of the loop "for i in 1..360"
CircleSteps == 360

Reverse(s) == [k \in 1..Len(s) |-> s[Len(s) + 1 - k]]

\* the rim vertex pushed for the angle of i degrees
RimVertex(center, radius, i) ==
    Vertex_new(RTrig(center.position[1], radius, "cos", i),
               RTrig(center.position[2], radius, "sin", i),
               Num(0), Color_from(center.color))

\* the vertex pushed before and after the loop: (center.x + radius, center.y)
SeamVertex(center, radius) ==
    Vertex_new(RAdd(center.position[1], radius), center.position[2],
               Num(0), Color_from(center.color))

\* the Vec "points" of the Circle arm without the push that follows the loop
CirclePointsUnclosed(center, radius) ==
    LET n == 2 + 3 * (CircleSteps - 1) IN
    [j \in 1..n |->
        IF j = 1 THEN SeamVertex(center, radius)
        ELSE IF j = 2 THEN center
        ELSE LET m == j - 3 IN
             IF m % 3 = 2 THEN center
             ELSE RimVertex(center, radius, (m \div 3) + 1)]

\* the Vec "points" of the Circle arm as it stands before it is reversed
CirclePoints(center, radius) ==
    LET n == 2 + 3 * (CircleSteps - 1) + 1 IN
    [j \in 1..n |->
        IF j = 1 \/ j = n THEN SeamVertex(center, radius)
        ELSE IF j = 2 THEN center
        ELSE LET m == j - 3 IN
             IF m % 3 = 2 THEN center
             ELSE RimVertex(center, radius, (m \div 3) + 1)]

Err(e) == [ok |-> FALSE, err |-> e]
Ok(v) == [ok |-> TRUE, vertices |-> v]

\* from_shape with a Rectangle arm whose second triangle ends on vertices[1]
\* of the slice, not on vertices[0]
from_shape_other_corner(kind, vertices) ==
    LET err == valid_vertex_number(kind, Len(vertices)) IN
    IF err # None THEN Err(err)
    ELSE Ok(CASE kind.tag = "Triangle" -> vertices
              [] kind.tag = "Rectangle" ->
                    <<vertices[1], vertices[2], vertices[3],
                      vertices[3], vertices[4], vertices[2]>>
              [] kind.tag = "Circle" ->
                    Reverse(CirclePoints(vertices[1], kind.radius)))

\* from_shape with a Rectangle arm that passes its four vertices through
from_shape_quad(kind, vertices) ==
    LET err == valid_vertex_number(kind, Len(vertices)) IN
    IF err # None THEN Err(err)
    ELSE Ok(CASE kind.tag = "Triangle" -> vertices
              [] kind.tag = "Rectangle" -> vertices
              [] kind.tag = "Circle" ->
                    Reverse(CirclePoints(vertices[1], kind.radius)))

\* Result<EntityBuilder, ShapeError>; an EntityBuilder is its vertices
from_shape(kind, vertices) ==
    LET err == valid_vertex_number(kind, Len(vertices)) IN
    IF err # None THEN Err(err)
    ELSE Ok(CASE kind.tag = "Triangle" -> vertices
              [] kind.tag = "Rectangle" ->
                    <<vertices[1], vertices[2], vertices[3],
                      vertices[3], vertices[4], vertices[1]>>
              [] kind.tag = "Circle" ->
                    Reverse(CirclePoints(vertices[1], kind.radius)))

normalize_coordinates(vertices, width, height) ==
    [k \in 1..Len(vertices) |->
        Vertex_new(RDiv(vertices[k].position[1], width),
                   RDiv(vertices[k].position[2], height),
                   vertices[k].position[3],
                   Color_from(vertices[k].color))]

\* the (width, height) an entity was normalized with, which Button reads back
surface_dimensions(width, height) == [horizontal |-> width, vertical |-> height]

\* Entity::new without the render-backend handles (buffer, pipeline)
Entity_new(width, height, vertices) ==
    [vertices |-> normalize_coordinates(vertices, width, height),
     surface_dimensions |-> surface_dimensions(width, height)]

\* EntityBuilder::build: "width as f32, height as f32"
build(builder, width, height) == Entity_new(Num(width), Num(height), builder)

num_vertices(entity) == Len(entity.vertices)

(***************************************************************************)
(* marlin.rs: SceneName, Button, MousePosition                             *)
(***************************************************************************)
Home == "Home"
RootPicker == "RootPicker"
Grapher == "Grapher"
Simulation == "Simulation"
SceneName == {Home, RootPicker, Grapher, Simulation}

ButtonDimensions_new(horizontal, vertical) ==
    [horizontal |-> horizontal, vertical |-> vertical]

RECURSIVE SumReals(_, _)
SumReals(f, n) == IF n = 0 THEN Num(0) ELSE RAdd(SumReals(f, n - 1), f[n])

\* Vertex::average: the arithmetic mean of the vertices, field by field
Vertex_average(vertices) ==
    LET n == Len(vertices)
        mean(f) == RDiv(SumReals(f, n), Num(n))
    IN  [position |-> [c \in 1..3 |-> mean([k \in 1..n |-> vertices[k].position[c]])],
         color |-> [c \in 1..3 |-> mean([k \in 1..n |-> vertices[k].color[c]])]]

leftmost_value(entity) ==
    LET vertices == entity.vertices
        leftmost == CHOOSE i \in 1..Len(vertices) : \A k \in 1..Len(vertices) :
                        ~RLt(vertices[k].position[1], vertices[i].position[1])
    IN  RMul(vertices[leftmost].position[1], entity.surface_dimensions.horizontal)

rightmost_value(entity) ==
    LET vertices == entity.vertices
        rightmost == CHOOSE i \in 1..Len(vertices) : \A k \in 1..Len(vertices) :
                        ~RGt(vertices[k].position[1], vertices[i].position[1])
    IN  RMul(vertices[rightmost].position[1], entity.surface_dimensions.horizontal)

topmost_value(entity) ==
    LET vertices == entity.vertices
        topmost == CHOOSE i \in 1..Len(vertices) : \A k \in 1..Len(vertices) :
                        ~RGt(vertices[k].position[2], vertices[i].position[2])
    IN  RMul(vertices[topmost].position[2], entity.surface_dimensions.vertical)

bottommost_value(entity) ==
    LET vertices == entity.vertices
        bottommost == CHOOSE i \in 1..Len(vertices) : \A k \in 1..Len(vertices) :
                        ~RLt(vertices[k].position[2], vertices[i].position[2])
    IN  RMul(vertices[bottommost].position[2], entity.surface_dimensions.vertical)

Button_new(inhabiting_scene, scene_request, entity) ==
    [inhabiting_scene |-> inhabiting_scene,
     center |-> Vertex_average(entity.vertices),
     scene_request |-> scene_request,
     entity |-> entity,
     dimensions |-> ButtonDimensions_new(
         RAbs(RSub(leftmost_value(entity), rightmost_value(entity))),
         RAbs(RSub(bottommost_value(entity), topmost_value(entity))))]

\* the literal 3.5 of the four bounds
BoundScale == Rat(35, 10)

left_bound(button) ==
    RSub(button.center.position[1], RDiv(button.dimensions.horizontal, BoundScale))
\* right_bound without the division by 3.5
right_bound_unscaled(button) ==
    RAdd(button.center.position[1], button.dimensions.horizontal)

right_bound(button) ==
    RAdd(button.center.position[1], RDiv(button.dimensions.horizontal, BoundScale))
top_bound(button) ==
    RAdd(button.center.position[2], RDiv(button.dimensions.vertical, BoundScale))
bottom_bound(button) ==
    RSub(button.center.position[2], RDiv(button.dimensions.vertical, BoundScale))

MousePosition_new(x, y, window_width, window_height) ==
    [x |-> x, y |-> y, window_dimensions |-> <<window_width, window_height>>]

update_window_dimensions(mp, horizontal, vertical) ==
    [mp EXCEPT !.window_dimensions = <<horizontal, vertical>>]

update_from_canvas_coords(mp, new_x, new_y) ==
    [mp EXCEPT !.x = RAdd(new_x, RDiv(mp.window_dimensions[1], Num(2))),
               !.y = RAdd(new_y, RDiv(mp.window_dimensions[2], Num(2)))]

update_from_window_coords(mp, new_x, new_y) ==
    [mp EXCEPT !.x = new_x, !.y = new_y]

canvas_x(mp) == RSub(mp.x, RDiv(mp.window_dimensions[1], Num(2)))
\* canvas_y without the change of sign
canvas_y_unflipped(mp) == RSub(mp.y, RDiv(mp.window_dimensions[2], Num(2)))

canvas_y(mp) == RNeg(RSub(mp.y, RDiv(mp.window_dimensions[2], Num(2))))

\* within_horizontal_bounds with < and > where the code has <= and >=
within_horizontal_bounds_strict(mp, x_left, x_right) ==
    RGt(canvas_x(mp), x_left) /\ RLt(canvas_x(mp), x_right)

within_horizontal_bounds(mp, x_left, x_right) ==
    RGe(canvas_x(mp), x_left) /\ RLe(canvas_x(mp), x_right)
within_vertical_bounds(mp, y_bottom, y_top) ==
    RGe(canvas_y(mp), y_bottom) /\ RLe(canvas_y(mp), y_top)
between(mp, x_left, x_right, y_bottom, y_top) ==
    within_horizontal_bounds(mp, x_left, x_right)
    /\ within_vertical_bounds(mp, y_bottom, y_top)

(***************************************************************************)
(* The program state: the fields of MasterWindowState that the core reads  *)
(* or writes (the render-backend handles surface, device, queue and window *)
(* are left out), the position of the program, and a record of the         *)
(* operation that ran last.                                                *)
(***************************************************************************)
VARIABLES
    cur_scene,        \* MasterWindowState.cur_scene
    buttons,          \* MasterWindowState.buttons, in registration order
    scenes,           \* MasterWindowState.scenes: a map SceneName -> Vec<Entity>
    mouse_position,   \* MasterWindowState.mouse_position
    size,             \* MasterWindowState.size
    config,           \* MasterWindowState.config (width and height)
    pc,               \* "main": main is building the scenes; "run": the event
                      \* loop runs; "exit": ControlFlow::Exit; "panicked"
    last              \* the operation that ran last: what it was given, what
                      \* it returned or drew, and the scene it started in

vars == <<cur_scene, buttons, scenes, mouse_position, size, config, pc, last>>

PhysicalSize(width, height) == [width |-> width, height |-> height]

(***************************************************************************)
(* The inputs the model draws from.                                        *)
(***************************************************************************)
\* window.inner_size() at construction
InitSizes == {PhysicalSize(800, 600)}
\* the sizes a Resized or ScaleFactorChanged event carries
Sizes == {PhysicalSize(1000, 500), PhysicalSize(0, 600), PhysicalSize(800, 0)}
\* the positions a CursorMoved event carries, in window coordinates
Points == {<<400, 300>>, <<650, 300>>}
MouseButtons == {"Left", "Right"}
ElementStates == {"Pressed", "Released"}
RenderResults == {"Ok", "Lost", "OutOfMemory", "Timeout"}

V(x, y, color) == Vertex_new(Num(x), Num(y), Num(0), color)
\* the control vertices of both buttons of main
MainRect == <<V(-200, 50, WHITE), V(-200, -50, WHITE),
              V(200, -50, WHITE), V(200, 50, WHITE)>>
Tri == <<V(0, 100, RED), V(-100, -100, RED), V(100, -100, RED)>>

ShapeInput(kind, vertices) == [kind |-> kind, vertices |-> vertices]
\* what add_button is given: the last has one vertex too few
ButtonInputs == {ShapeInput(Rectangle, MainRect), ShapeInput(Rectangle, Tri)}
ButtonScenes == {Home, RootPicker}
SceneRequests == {Home, RootPicker, Grapher}
\* what add_shape is given: the last has one vertex too many
ShapeInputs == {ShapeInput(Triangle, Tri), ShapeInput(Triangle, MainRect)}
\* what add_entity is given
EntityScenes == {Home}
EntityInputs == {Entity_new(Num(800), Num(600), MainRect)}

RECURSIVE NumEntities(_)
NumEntities(names) ==
    IF names = {} THEN 0
    ELSE LET s == CHOOSE s \in names : TRUE
         IN  Len(scenes[s]) + NumEntities(names \ {s})

NumAdds == Len(buttons) + NumEntities(DOMAIN scenes)

Last(op, arg, ret, drawn, panic) ==
    [op |-> op, arg |-> arg, ret |-> ret, drawn |-> drawn, panic |-> panic,
     pre_scene |-> cur_scene]

(***************************************************************************)
(* MasterWindowState::new                                                  *)
(***************************************************************************)
\* new_scenes without the insert of SceneName::Simulation
new_scenes_three == [s \in {Home, RootPicker, Grapher} |-> <<>>]

new_scenes == [s \in {Home, RootPicker, Grapher, Simulation} |-> <<>>]

new(window_size) ==
    /\ size = window_size
    /\ config = [width |-> window_size.width, height |-> window_size.height]
    /\ cur_scene = Home
    /\ buttons = <<>>
    /\ scenes = new_scenes
    /\ mouse_position = MousePosition_new(Num(0), Num(0), Num(window_size.width),
                                          Num(window_size.height))

Init ==
    /\ \E window_size \in InitSizes : new(window_size)
    /\ pc = "main"
    /\ last = [op |-> "new", arg |-> None, ret |-> None, drawn |-> <<>>,
               panic |-> "none", pre_scene |-> Home]

(***************************************************************************)
(* The operations main calls while it builds the scenes.                   *)
(***************************************************************************)
\* the arguments of a call of add_shape or add_button
CallArg(scene, kind, vertices) ==
    [scene |-> scene, kind |-> kind, vertices |-> vertices]

Panic(op, arg, why) ==
    /\ pc' = "panicked"
    /\ last' = Last(op, arg, None, <<>>, why)
    /\ UNCHANGED <<cur_scene, buttons, scenes, mouse_position, size, config>>

\* add_button that builds the vertices as they were given when from_shape
\* refuses them
add_button_lenient(scene, shape, vertices, scene_request) ==
    LET builder == from_shape(shape, vertices)
        mesh == IF builder.ok THEN builder.vertices ELSE vertices
    IN  /\ buttons' = Append(buttons,
                Button_new(scene, scene_request,
                           build(mesh, size.width, size.height)))
        /\ last' = Last("add_button", CallArg(scene, shape, vertices), None, <<>>,
                        "none")
        /\ UNCHANGED <<cur_scene, scenes, mouse_position, size, config, pc>>

add_button(scene, shape, vertices, scene_request) ==
    LET builder == from_shape(shape, vertices) IN
    IF ~builder.ok
    THEN Panic("add_button", CallArg(scene, shape, vertices), "from_shape")
    ELSE /\ buttons' = Append(buttons,
                Button_new(scene, scene_request,
                           build(builder.vertices, size.width, size.height)))
         /\ last' = Last("add_button", CallArg(scene, shape, vertices), None, <<>>,
                         "none")
         /\ UNCHANGED <<cur_scene, scenes, mouse_position, size, config, pc>>

\* next_scene that stays in Simulation instead of wrapping to Home
next_scene_no_wrap(self_scene) ==
    CASE self_scene = Home -> RootPicker
      [] self_scene = RootPicker -> Grapher
      [] self_scene = Grapher -> Simulation
      [] self_scene = Simulation -> Simulation

\* next_scene(&self): self_scene is self.cur_scene
next_scene(self_scene) ==
    CASE self_scene = Home -> RootPicker
      [] self_scene = RootPicker -> Grapher
      [] self_scene = Grapher -> Simulation
      [] self_scene = Simulation -> Home

\* previous_scene as the inverse of next_scene
previous_scene_inverse(self_scene) ==
    CASE self_scene = Home -> Simulation
      [] self_scene = RootPicker -> Home
      [] self_scene = Grapher -> RootPicker
      [] self_scene = Simulation -> Grapher

\* previous_scene(&self): self_scene is self.cur_scene
previous_scene(self_scene) ==
    CASE self_scene = Home -> Home
      [] self_scene = RootPicker -> Home
      [] self_scene = Grapher -> RootPicker
      [] self_scene = Simulation -> Grapher

add_entity(scene, entity) ==
    IF scene \notin DOMAIN scenes
    THEN Panic("add_entity", scene, "lookup")
    ELSE /\ scenes' = [scenes EXCEPT ![scene] = Append(@, entity)]
         /\ last' = Last("add_entity", scene, None, <<>>, "none")
         /\ UNCHANGED <<cur_scene, buttons, mouse_position, size, config, pc>>

\* add_shape that stores the new entity as the whole draw list of the scene
add_shape_replacing(scene, kind, vertices) ==
    LET builder == from_shape(kind, vertices) IN
    IF scene \notin DOMAIN scenes
    THEN Panic("add_shape", CallArg(scene, kind, vertices), "lookup")
    ELSE IF ~builder.ok
    THEN Panic("add_shape", CallArg(scene, kind, vertices), "from_shape")
    ELSE /\ scenes' = [scenes EXCEPT ![scene] =
                          <<build(builder.vertices, size.width, size.height)>>]
         /\ last' = Last("add_shape", CallArg(scene, kind, vertices), None, <<>>,
                         "none")
         /\ UNCHANGED <<cur_scene, buttons, mouse_position, size, config, pc>>

add_shape(scene, kind, vertices) ==
    LET builder == from_shape(kind, vertices) IN
    IF scene \notin DOMAIN scenes
    THEN Panic("add_shape", CallArg(scene, kind, vertices), "lookup")
    ELSE IF ~builder.ok
    THEN Panic("add_shape", CallArg(scene, kind, vertices), "from_shape")
    ELSE /\ scenes' = [scenes EXCEPT ![scene] =
                          Append(@, build(builder.vertices, size.width, size.height))]
         /\ last' = Last("add_shape", CallArg(scene, kind, vertices), None, <<>>,
                         "none")
         /\ UNCHANGED <<cur_scene, buttons, mouse_position, size, config, pc>>

AddButton ==
    /\ pc = "main"
    /\ NumAdds < MaxAdds
    /\ \E scene \in ButtonScenes, input \in ButtonInputs, scene_request \in SceneRequests :
          add_button(scene, input.kind, input.vertices, scene_request)

AddShape ==
    /\ pc = "main"
    /\ NumAdds < MaxAdds
    /\ \E scene \in SceneName, input \in ShapeInputs :
          add_shape(scene, input.kind, input.vertices)

AddEntity ==
    /\ pc = "main"
    /\ NumAdds < MaxAdds
    /\ \E scene \in EntityScenes, entity \in EntityInputs : add_entity(scene, entity)

NextSceneCall ==
    /\ pc = "main"
    /\ last' = Last("next_scene", None, next_scene(cur_scene), <<>>, "none")
    /\ UNCHANGED <<cur_scene, buttons, scenes, mouse_position, size, config, pc>>

PreviousSceneCall ==
    /\ pc = "main"
    /\ last' = Last("previous_scene", None, previous_scene(cur_scene), <<>>, "none")
    /\ UNCHANGED <<cur_scene, buttons, scenes, mouse_position, size, config, pc>>

\* main hands the state to run, which starts the event loop
Run ==
    /\ pc = "main"
    /\ pc' = "run"
    /\ last' = Last("run", None, None, <<>>, "none")
    /\ UNCHANGED <<cur_scene, buttons, scenes, mouse_position, size, config>>

(***************************************************************************)
(* The handlers of the event loop.                                         *)
(***************************************************************************)
resize(new_size) ==
    /\ size' = new_size
    /\ config' = [config EXCEPT !.width = new_size.width, !.height = new_size.height]

\* the loop of the MouseInput arm without its filter on inhabiting_scene
RECURSIVE PressLoopAnyScene(_, _, _)
PressLoopAnyScene(i, current_scene, scene) ==
    IF i > Len(buttons) THEN scene
    ELSE LET button == buttons[i] IN
         IF between(mouse_position, left_bound(button), right_bound(button),
                    bottom_bound(button), top_bound(button))
         THEN PressLoopAnyScene(i + 1, current_scene, button.scene_request)
         ELSE PressLoopAnyScene(i + 1, current_scene, scene)

\* the loop of the MouseInput arm with a filter that reads self.cur_scene
\* anew for each button
RECURSIVE PressLoopChaining(_, _, _)
PressLoopChaining(i, current_scene, scene) ==
    IF i > Len(buttons) THEN scene
    ELSE LET button == buttons[i] IN
         IF /\ button.inhabiting_scene = scene
            /\ between(mouse_position, left_bound(button), right_bound(button),
                       bottom_bound(button), top_bound(button))
         THEN PressLoopChaining(i + 1, current_scene, button.scene_request)
         ELSE PressLoopChaining(i + 1, current_scene, scene)

\* the loop of the MouseInput arm over the buttons from the i-th on:
\* current_scene is the scene the press began in, scene the value of
\* self.cur_scene so far
RECURSIVE PressLoop(_, _, _)
PressLoop(i, current_scene, scene) ==
    IF i > Len(buttons) THEN scene
    ELSE LET button == buttons[i] IN
         IF /\ button.inhabiting_scene = current_scene
            /\ between(mouse_position, left_bound(button), right_bound(button),
                       bottom_bound(button), top_bound(button))
         THEN PressLoop(i + 1, current_scene, button.scene_request)
         ELSE PressLoop(i + 1, current_scene, scene)

\* input() on WindowEvent::CursorMoved { position }
InputCursorMoved(position) ==
    /\ mouse_position' = update_from_window_coords(mouse_position,
                                                   Num(position[1]), Num(position[2]))
    /\ UNCHANGED cur_scene

\* the MouseInput arm without its return for buttons other than the left
InputMouseInputAnyButton(state, button) ==
    /\ cur_scene' = IF state = "Pressed"
                    THEN PressLoop(1, cur_scene, cur_scene)
                    ELSE cur_scene
    /\ UNCHANGED mouse_position

\* input() on WindowEvent::MouseInput { state, button }
InputMouseInput(state, button) ==
    /\ cur_scene' = IF state = "Pressed" /\ button = "Left"
                    THEN PressLoop(1, cur_scene, cur_scene)
                    ELSE cur_scene
    /\ UNCHANGED mouse_position

CursorMoved ==
    /\ pc = "run"
    /\ \E position \in Points :
          /\ InputCursorMoved(position)
          /\ last' = Last("CursorMoved", position, None, <<>>, "none")
    /\ UNCHANGED <<buttons, scenes, size, config, pc>>

MouseInput ==
    /\ pc = "run"
    /\ \E state \in ElementStates, button \in MouseButtons :
          /\ InputMouseInput(state, button)
          /\ last' = Last("MouseInput", [state |-> state, button |-> button],
                          None, <<>>, "none")
    /\ UNCHANGED <<buttons, scenes, size, config, pc>>

\* any other window event: input() falls to "_ => {}"
OtherWindowEvent ==
    /\ pc = "run"
    /\ last' = Last("WindowEvent", None, None, <<>>, "none")
    /\ UNCHANGED <<cur_scene, buttons, scenes, mouse_position, size, config, pc>>

\* WindowEvent::Resized and WindowEvent::ScaleFactorChanged
Resized ==
    /\ pc = "run"
    /\ \E new_size \in Sizes :
          /\ resize(new_size)
          /\ last' = Last("resize", new_size, None, <<>>, "none")
    /\ UNCHANGED <<cur_scene, buttons, scenes, mouse_position, pc>>

CloseRequested ==
    /\ pc = "run"
    /\ pc' = "exit"
    /\ last' = Last("CloseRequested", None, None, <<>>, "none")
    /\ UNCHANGED <<cur_scene, buttons, scenes, mouse_position, size, config>>

\* Event::MainEventsCleared: request_redraw
MainEventsCleared ==
    /\ pc = "run"
    /\ last' = Last("MainEventsCleared", None, None, <<>>, "none")
    /\ UNCHANGED <<cur_scene, buttons, scenes, mouse_position, size, config, pc>>

DrawCall(from, index, entity) ==
    [from |-> from, index |-> index, num_vertices |-> num_vertices(entity)]

\* the second loop of render without its "continue" for buttons of other scenes
RECURSIVE ButtonDrawsAnyScene(_)
ButtonDrawsAnyScene(i) ==
    IF i > Len(buttons) THEN <<>>
    ELSE <<DrawCall("button", i, buttons[i].entity)>> \o ButtonDrawsAnyScene(i + 1)

\* the draw calls of the second loop of render, over the buttons from the i-th on
RECURSIVE ButtonDraws(_)
ButtonDraws(i) ==
    IF i > Len(buttons) THEN <<>>
    ELSE IF buttons[i].inhabiting_scene # cur_scene THEN ButtonDraws(i + 1)
    ELSE <<DrawCall("button", i, buttons[i].entity)>> \o ButtonDraws(i + 1)

\* the draw calls of a render pass that got its surface texture
render_draws ==
    LET registered_entities == scenes[cur_scene] IN
    [k \in 1..Len(registered_entities) |->
        DrawCall(cur_scene, k, registered_entities[k])]
    \o ButtonDraws(1)

\* Event::RedrawRequested: update, render, and the match on its result;
\* texture is what surface.get_current_texture() answers
RedrawRequested ==
    /\ pc = "run"
    /\ \E texture \in RenderResults :
          IF texture = "Ok" /\ cur_scene \notin DOMAIN scenes
          THEN Panic("render", None, "lookup")
          ELSE /\ last' = Last("render", None, texture,
                               IF texture = "Ok" THEN render_draws ELSE <<>>, "none")
               /\ IF texture = "Lost" THEN resize(size)
                  ELSE UNCHANGED <<size, config>>
               /\ pc' = IF texture = "OutOfMemory" THEN "exit" ELSE pc
               /\ UNCHANGED <<cur_scene, buttons, scenes, mouse_position>>

Next ==
    \/ AddButton
    \/ AddShape
    \/ AddEntity
    \/ NextSceneCall
    \/ PreviousSceneCall
    \/ Run
    \/ CursorMoved
    \/ MouseInput
    \/ OtherWindowEvent
    \/ Resized
    \/ CloseRequested
    \/ MainEventsCleared
    \/ RedrawRequested

Spec == Init /\ [][Next]_vars

(***************************************************************************)
(* The tessellator alone: EntityBuilder::from_shape applied to a shape     *)
(* kind and a vertex list drawn from bounded sets.                         *)
(***************************************************************************)
TessVertices == {V(0, 0, BLUE), V(-200, 50, WHITE)}
TessKinds == {Triangle, Rectangle, Circle(Num(500)), Circle(Num(1))}

RECURSIVE SeqsUpTo(_, _)
SeqsUpTo(S, n) ==
    IF n = 0 THEN {<<>>}
    ELSE LET shorter == SeqsUpTo(S, n - 1) IN
         shorter \cup {Append(q, x) : q \in shorter, x \in S}

\* a quad whose four corners differ in place and in color
ColoredQuad == <<V(0, 0, RED), V(0, 100, BLUE), V(100, 100, WHITE), V(100, 0, BLACK)>>
\* the rectangles of four distinct corners a caller may hold
TessQuads == {ShapeInput(Rectangle, MainRect), ShapeInput(Rectangle, ColoredQuad)}

\* the caller holds a shape kind and a vertex list
InitTess ==
    /\ \E window_size \in InitSizes : new(window_size)
    /\ pc = "main"
    /\ \E input \in TessQuads \cup
                    {ShapeInput(kind, vertices) :
                        kind \in TessKinds,
                        vertices \in SeqsUpTo(TessVertices, MaxVertices)} :
          last = [op |-> "caller", arg |-> input, ret |-> None,
                  drawn |-> <<>>, panic |-> "none", pre_scene |-> Home]

\* the caller hands them to EntityBuilder::from_shape
FromShapeCall ==
    /\ last.op = "caller"
    /\ last' = Last("from_shape", last.arg,
                    from_shape(last.arg.kind, last.arg.vertices), <<>>, "none")
    /\ UNCHANGED <<cur_scene, buttons, scenes, mouse_position, size, config, pc>>

SpecTess == InitTess /\ [][FromShapeCall]_vars

(***************************************************************************)
(* next_scene and previous_scene alone: the two functions applied to a     *)
(* MasterWindowState in any scene, as an owner that has driven the state   *)
(* with input() and resize() before calling them may hold it.              *)
(***************************************************************************)
InitScene ==
    /\ \E s \in SceneName, now \in InitSizes \cup Sizes,
          position \in Points \cup {<<0, 0>>} :
          /\ cur_scene = s
          /\ size = now
          /\ config = [width |-> now.width, height |-> now.height]
          /\ buttons = IF s = Home THEN <<>>
                       ELSE <<Button_new(Home, s,
                                build(from_shape(Rectangle, MainRect).vertices, 800, 600))>>
          /\ mouse_position = MousePosition_new(Num(position[1]), Num(position[2]),
                                                Num(800), Num(600))
    /\ scenes = new_scenes
    /\ pc = "main"
    /\ last = [op |-> "new", arg |-> None, ret |-> None, drawn |-> <<>>,
               panic |-> "none", pre_scene |-> cur_scene]

SpecScene == InitScene /\ [][NextSceneCall \/ PreviousSceneCall]_vars

(***************************************************************************)
(* add_button alone: main registers buttons of several shapes and places,  *)
(* not only the rectangle around the canvas origin.                        *)
(***************************************************************************)
\* a rectangle around canvas (300, 0) and one around canvas (-200, 200)
RightRect == <<V(100, 50, WHITE), V(100, -50, WHITE),
               V(500, -50, WHITE), V(500, 50, WHITE)>>
UpperRect == <<V(-300, 250, BLUE), V(-300, 150, BLUE),
               V(-100, 150, BLUE), V(-100, 250, BLUE)>>
\* what add_button is given: the last has one vertex too few
ButtonGeometries ==
    {ShapeInput(Rectangle, MainRect), ShapeInput(Rectangle, RightRect),
     ShapeInput(Rectangle, UpperRect), ShapeInput(Triangle, Tri),
     ShapeInput(Rectangle, Tri)}

AddButtonAt ==
    /\ pc = "main"
    /\ Len(buttons) < MaxAdds
    /\ \E scene \in ButtonScenes, input \in ButtonGeometries,
          scene_request \in SceneRequests :
          add_button(scene, input.kind, input.vertices, scene_request)

SpecButton == Init /\ [][AddButtonAt]_vars

(***************************************************************************)
(* MousePosition alone: the pointer is moved to window coordinates drawn   *)
(* from a bounded set and tested against boxes given in canvas units.      *)
(***************************************************************************)
\* the window sizes MousePosition is built with
PointerSizes == {PhysicalSize(800, 600), PhysicalSize(1000, 500)}
\* window coordinates: in an 800x600 window these are canvas x -101, -100,
\* 0, 100, 101 and canvas y 51, 50, 0, -50, -51
PointerXs == {299, 300, 400, 500, 501}
PointerYs == {249, 250, 300, 350, 351}
Box(x_left, x_right, y_bottom, y_top) ==
    [x_left |-> x_left, x_right |-> x_right, y_bottom |-> y_bottom, y_top |-> y_top]
\* a box around the origin, a box that is one point, a box whose left bound
\* lies right of its right bound
Boxes == {Box(-100, 100, -50, 50), Box(0, 0, 0, 0), Box(100, -100, -50, 50)}

InitPointer ==
    /\ \E window_size \in PointerSizes : new(window_size)
    /\ pc = "run"
    /\ last = [op |-> "new", arg |-> None, ret |-> None, drawn |-> <<>>,
               panic |-> "none", pre_scene |-> Home]

\* canvas coordinates handed to update_from_canvas_coords
CanvasXs == {-100, 0, 101}
CanvasYs == {-50, 0, 51}

\* update_from_canvas_coords, then what canvas_x() and canvas_y() answer
UpdateFromCanvasCoords ==
    /\ \E new_x \in CanvasXs, new_y \in CanvasYs :
          /\ mouse_position' = update_from_canvas_coords(mouse_position,
                                                         Num(new_x), Num(new_y))
          /\ last' = Last("update_from_canvas_coords", <<new_x, new_y>>,
                          <<canvas_x(mouse_position'), canvas_y(mouse_position')>>,
                          <<>>, "none")
    /\ UNCHANGED <<cur_scene, buttons, scenes, size, config, pc>>

\* update_from_window_coords, then what canvas_x() and canvas_y() answer
UpdateFromWindowCoords ==
    /\ \E new_x \in PointerXs, new_y \in PointerYs :
          /\ mouse_position' = update_from_window_coords(mouse_position,
                                                         Num(new_x), Num(new_y))
          /\ last' = Last("update_from_window_coords", <<new_x, new_y>>,
                          <<canvas_x(mouse_position'), canvas_y(mouse_position')>>,
                          <<>>, "none")
    /\ UNCHANGED <<cur_scene, buttons, scenes, size, config, pc>>

\* between, called with the four bounds of a box
BetweenCall ==
    /\ \E box \in Boxes :
          last' = Last("between", box,
                       between(mouse_position, Num(box.x_left), Num(box.x_right),
                               Num(box.y_bottom), Num(box.y_top)),
                       <<>>, "none")
    /\ UNCHANGED <<cur_scene, buttons, scenes, mouse_position, size, config, pc>>

SpecPointer ==
    InitPointer
    /\ [][UpdateFromWindowCoords \/ UpdateFromCanvasCoords \/ BetweenCall]_vars

(***************************************************************************)
(* Color alone: with_alpha, new and mix applied to arguments drawn from    *)
(* bounded sets.                                                           *)
(***************************************************************************)
\* u32 arguments: the least, both sides of the bound, one between, one far
\* beyond
ChannelValues == {0, 128, 255, 256, 65536}
\* Color values a caller can hold: the four constants and one with alpha 0
Palette == {BLACK, WHITE, RED, BLUE, with_alpha(1, 2, 3, 0)}

InitColor ==
    /\ \E window_size \in InitSizes : new(window_size)
    /\ pc = "main"
    /\ last = [op |-> "new", arg |-> None, ret |-> None, drawn |-> <<>>,
               panic |-> "none", pre_scene |-> Home]

WithAlphaCall ==
    /\ \E r \in ChannelValues, g \in ChannelValues, b \in ChannelValues,
          a \in ChannelValues :
          last' = Last("with_alpha", <<r, g, b, a>>, with_alpha(r, g, b, a),
                       <<>>, "none")
    /\ UNCHANGED <<cur_scene, buttons, scenes, mouse_position, size, config, pc>>

ColorNewCall ==
    /\ \E r \in ChannelValues, g \in ChannelValues, b \in ChannelValues :
          last' = Last("Color::new", <<r, g, b>>, Color_new(r, g, b), <<>>, "none")
    /\ UNCHANGED <<cur_scene, buttons, scenes, mouse_position, size, config, pc>>

MixCall ==
    /\ \E colors \in SeqsUpTo(Palette, MaxColors) :
          last' = Last("mix", colors, mix(colors), <<>>, "none")
    /\ UNCHANGED <<cur_scene, buttons, scenes, mouse_position, size, config, pc>>

SpecColor == InitColor /\ [][WithAlphaCall \/ ColorNewCall \/ MixCall]_vars

(***************************************************************************)
(* The program as main wires it: a circle and a button on Home, a circle   *)
(* and a button on RootPicker, then the event loop. The place of main is   *)
(* the number of its calls that have returned.                             *)
(***************************************************************************)
\* state.add_shape(&SceneName::Home, &ShapeKind::Circle(500.0), ... BLUE)
MainAddShapeHome ==
    /\ pc = "main"
    /\ NumAdds = 0
    /\ add_shape(Home, Circle(Num(500)), <<V(0, 0, BLUE)>>)

\* state.add_button(&SceneName::Home, ..., state.next_scene())
MainAddButtonHome ==
    /\ pc = "main"
    /\ NumAdds = 1
    /\ add_button(Home, Rectangle, MainRect, next_scene(cur_scene))

\* state.add_shape(&SceneName::RootPicker, &ShapeKind::Circle(500.0), ... RED)
MainAddShapeRootPicker ==
    /\ pc = "main"
    /\ NumAdds = 2
    /\ add_shape(RootPicker, Circle(Num(500)), <<V(0, 0, RED)>>)

\* state.add_button(&SceneName::RootPicker, ..., state.previous_scene())
MainAddButtonRootPicker ==
    /\ pc = "main"
    /\ NumAdds = 3
    /\ add_button(RootPicker, Rectangle, MainRect, previous_scene(cur_scene))

\* state.run(event_loop)
MainRun ==
    /\ NumAdds = 4
    /\ Run

NextMain ==
    \/ MainAddShapeHome
    \/ MainAddButtonHome
    \/ MainAddShapeRootPicker
    \/ MainAddButtonRootPicker
    \/ MainRun
    \/ CursorMoved
    \/ MouseInput
    \/ OtherWindowEvent
    \/ Resized
    \/ CloseRequested
    \/ MainEventsCleared
    \/ RedrawRequested

SpecMain == Init /\ [][NextMain]_vars

(***************************************************************************)
(* Properties.                                                             *)
(***************************************************************************)
\* the pointer lies in the bounding box of the button, as input() tests it
Hit(button) ==
    between(mouse_position, left_bound(button), right_bound(button),
            bottom_bound(button), top_bound(button))

\* the buttons of a scene that contain the pointer, by registration index
HitsIn(scene) ==
    {i \in 1..Len(buttons) : buttons[i].inhabiting_scene = scene /\ Hit(buttons[i])}

Min(S) == CHOOSE x \in S : \A y \in S : x <= y

\* input() has just handled a press of the primary button
LeftPress ==
    last.op = "MouseInput" /\ last.arg = [state |-> "Pressed", button |-> "Left"]

CanvasAt(x, y) ==
    canvas_x(mouse_position) = Num(x) /\ canvas_y(mouse_position) = Num(y)

\* C1: after a primary press with at least one button of the scene the press
\* began in under the pointer, the current scene is the scene_request of the
\* first such button in registration order.
C1_FirstMatchWins ==
    (LeftPress /\ HitsIn(last.pre_scene) # {})
        => cur_scene = buttons[Min(HitsIn(last.pre_scene))].scene_request

\* C2: after a primary press with no button of the scene the press began in
\* under the pointer, the current scene is the scene the press began in.
C2_NoMatchNoTransition ==
    (LeftPress /\ HitsIn(last.pre_scene) = {}) => cur_scene = last.pre_scene

\* a press that hit nothing while the pointer lay inside a button of another
\* scene, whose request differs from the scene the press began in
C2_Witness ==
    /\ LeftPress
    /\ HitsIn(last.pre_scene) = {}
    /\ cur_scene = last.pre_scene
    /\ \E i \in 1..Len(buttons) :
          /\ buttons[i].inhabiting_scene # last.pre_scene
          /\ Hit(buttons[i])
          /\ buttons[i].scene_request # last.pre_scene

\* the button add_button registers on Home from the control vertices
\* (-200,50), (-200,-50), (200,-50), (200,50)
IsHomeRectButton(button) ==
    /\ button.inhabiting_scene = Home
    /\ \E window_size \in InitSizes :
          button.entity = build(<<MainRect[1], MainRect[2], MainRect[3],
                                  MainRect[3], MainRect[4], MainRect[1]>>,
                                window_size.width, window_size.height)

\* the buttons registered on Home, by registration index
HomeButtons ==
    {i \in 1..Len(buttons) : buttons[i].inhabiting_scene = Home}

HomeRectScenario ==
    /\ LeftPress
    /\ last.pre_scene = Home
    /\ Cardinality(HomeButtons) = 1
    /\ \A i \in HomeButtons : IsHomeRectButton(buttons[i])

\* C3: with the rectangle button the only button on Home, a primary press in
\* Home at canvas (0,0) moves to the button's scene_request, and a primary
\* press in Home at canvas (250,0) stays in Home.
C3_HomeRectEndToEnd ==
    HomeRectScenario =>
        /\ CanvasAt(0, 0) => \A i \in HomeButtons : cur_scene = buttons[i].scene_request
        /\ CanvasAt(250, 0) => cur_scene = Home

\* the press at canvas (0,0) has left Home for the requested scene
C3_Witness ==
    /\ HomeRectScenario
    /\ CanvasAt(0, 0)
    /\ cur_scene = Grapher
    /\ \A i \in HomeButtons : buttons[i].scene_request = Grapher

\* C4: whenever a primary press has been hit-tested against a button, the
\* window dimensions held by MousePosition are those of the current
\* (positive) window size.
C4_PressUsesCurrentSize ==
    (/\ LeftPress
     /\ \E i \in 1..Len(buttons) : buttons[i].inhabiting_scene = last.pre_scene
     /\ size.width > 0 /\ size.height > 0)
        => mouse_position.window_dimensions = <<Num(size.width), Num(size.height)>>

\* C5: a resize event with width 0 or height 0 leaves size and the surface
\* configuration as they were.
C5_ZeroResizeRejected ==
    [][(last'.op = "resize" /\ (last'.arg.width = 0 \/ last'.arg.height = 0))
          => (size' = size /\ config' = config)]_vars

\* the cycle Home -> RootPicker -> Grapher -> Simulation -> Home
Ring == <<Home, RootPicker, Grapher, Simulation>>
RingIndex(scene) == CHOOSE k \in 1..4 : Ring[k] = scene
RingSuccessor(scene) == Ring[(RingIndex(scene) % 4) + 1]

\* C6: next_scene is total, injective and onto SceneName, it returns the
\* successor on the cycle, four applications lead back to the scene they
\* started from and one, two or three do not.
C6_NextSceneFourCycle ==
    /\ \A s \in SceneName : next_scene(s) \in SceneName
    /\ \A s, t \in SceneName : next_scene(s) = next_scene(t) => s = t
    /\ {next_scene(s) : s \in SceneName} = SceneName
    /\ LET s1 == next_scene(cur_scene)
           s2 == next_scene(s1)
           s3 == next_scene(s2)
           s4 == next_scene(s3)
       IN  /\ s4 = cur_scene
           /\ cur_scene \notin {s1, s2, s3}
    /\ last.op = "next_scene" => last.ret = RingSuccessor(cur_scene)

\* next_scene called in Simulation has answered Home
C6_Witness ==
    last.op = "next_scene" /\ cur_scene = Simulation /\ last.ret = Home

\* the table Home->Home, RootPicker->Home, Grapher->RootPicker, Simulation->Grapher
PreviousTable(scene) ==
    CASE scene = Home -> Home
      [] scene = RootPicker -> Home
      [] scene = Grapher -> RootPicker
      [] scene = Simulation -> Grapher

\* C7: previous_scene is total, it answers by the table, and it does not
\* undo next_scene: previous_scene(next_scene(Simulation)) is Home.
C7_PreviousSceneTable ==
    /\ \A s \in SceneName : previous_scene(s) \in SceneName
    /\ last.op = "previous_scene" => last.ret = PreviousTable(cur_scene)
    /\ previous_scene(next_scene(Simulation)) = Home
    /\ \E s \in SceneName : previous_scene(next_scene(s)) # s

\* previous_scene called in Home has answered Home
C7_Witness ==
    last.op = "previous_scene" /\ cur_scene = Home /\ last.ret = Home

\* the vertex counts Triangle 3, Rectangle 4, Circle 1
Requisite(kind) ==
    CASE kind.tag = "Triangle" -> 3
      [] kind.tag = "Rectangle" -> 4
      [] kind.tag = "Circle" -> 1

\* C8: from_shape answers VertexUnderspecification(kind) for too few
\* vertices, VertexOverspecification(kind) for too many, in both cases
\* without a mesh, and a mesh for exactly the requisite number.
C8_VertexCountErrors ==
    last.op = "from_shape" =>
        LET kind == last.arg.kind
            n == Len(last.arg.vertices)
        IN  /\ n < Requisite(kind) =>
                  last.ret = [ok |-> FALSE, err |-> [tag |-> "VertexUnderspecification",
                                                    kind |-> kind]]
            /\ n > Requisite(kind) =>
                  last.ret = [ok |-> FALSE, err |-> [tag |-> "VertexOverspecification",
                                                    kind |-> kind]]
            /\ n = Requisite(kind) => last.ret.ok

\* a Circle without its centre has been refused as underspecified
C8_Witness ==
    /\ last.op = "from_shape"
    /\ last.arg.kind.tag = "Circle"
    /\ Len(last.arg.vertices) = 0
    /\ ~last.ret.ok
    /\ last.ret.err.tag = "VertexUnderspecification"

\* C9: for the requisite number of vertices from_shape answers a mesh of 3
\* vertices for a Triangle, 6 for a Rectangle and 1080 for a Circle of any
\* radius and centre.
C9_MeshLength ==
    (last.op = "from_shape" /\ Len(last.arg.vertices) = Requisite(last.arg.kind)) =>
        /\ last.ret.ok
        /\ Len(last.ret.vertices) > 0
        /\ Len(last.ret.vertices) =
              CASE last.arg.kind.tag = "Triangle" -> 3
                [] last.arg.kind.tag = "Rectangle" -> 6
                [] last.arg.kind.tag = "Circle" -> 1080

\* a Circle of radius 1 around (-200, 50) has been tessellated
C9_Witness ==
    /\ last.op = "from_shape"
    /\ last.arg = ShapeInput(Circle(Num(1)), <<V(-200, 50, WHITE)>>)
    /\ last.ret.ok
    /\ Len(last.ret.vertices) = 1080

\* C10: the scene registry has an entry for every SceneName, and no
\* operation has failed to find a scene in it.
C10_RegistryTotal ==
    /\ DOMAIN scenes = SceneName
    /\ last.panic # "lookup"

\* a render pass in Grapher has found its draw list, after add_shape found
\* the draw list of Simulation
C10_Witness ==
    /\ last.op = "render"
    /\ last.ret = "Ok"
    /\ cur_scene = Grapher
    /\ Len(scenes[Simulation]) > 0

\* C11: a step in which add_shape succeeds on a scene lengthens the draw list
\* of that scene by one entity, keeps the entities it held before in their
\* places in front of the new one, and leaves the draw lists of the other
\* scenes, the button list and the current scene as they were.
C11_AddShapeAppends ==
    [][(last'.op = "add_shape" /\ last'.panic = "none") =>
          LET scene == last'.arg.scene IN
          /\ Len(scenes'[scene]) = Len(scenes[scene]) + 1
          /\ SubSeq(scenes'[scene], 1, Len(scenes[scene])) = scenes[scene]
          /\ \A other \in DOMAIN scenes \ {scene} : scenes'[other] = scenes[other]
          /\ DOMAIN scenes' = DOMAIN scenes
          /\ buttons' = buttons
          /\ cur_scene' = cur_scene]_vars

\* add_shape has put a triangle behind the rectangle that add_entity had
\* put on Home
C11_Witness ==
    /\ last.op = "add_shape"
    /\ last.panic = "none"
    /\ last.arg.scene = Home
    /\ Len(scenes[Home]) = 2
    /\ scenes[Home][1] \in EntityInputs
    /\ num_vertices(scenes[Home][2]) = 3

\* the mean of coordinate c of the control vertices as they were given
RawMean(vertices, c) ==
    RDiv(SumReals([k \in 1..Len(vertices) |-> vertices[k].position[c]],
                  Len(vertices)),
         Num(Len(vertices)))

\* the extent of the bounding box of the control vertices, as they were
\* given, along coordinate c
RawExtent(vertices, c) ==
    LET lo == CHOOSE k \in 1..Len(vertices) : \A j \in 1..Len(vertices) :
                  RLe(vertices[k].position[c], vertices[j].position[c])
        hi == CHOOSE k \in 1..Len(vertices) : \A j \in 1..Len(vertices) :
                  RGe(vertices[k].position[c], vertices[j].position[c])
    IN  RSub(vertices[hi].position[c], vertices[lo].position[c])

\* the button is the one add_button makes of the input in this window
ButtonMadeOf(button, input) ==
    /\ from_shape(input.kind, input.vertices).ok
    /\ button.entity = build(from_shape(input.kind, input.vertices).vertices,
                             size.width, size.height)

\* C12: every registered button has as its center the mean of the control
\* vertices add_button was given, and as its dimensions the extents of their
\* bounding box, both in the canvas units the control vertices are in.
C12_ButtonRawGeometry ==
    \A i \in 1..Len(buttons) : \A input \in ButtonGeometries :
        ButtonMadeOf(buttons[i], input) =>
            /\ buttons[i].center.position[1] = RawMean(input.vertices, 1)
            /\ buttons[i].center.position[2] = RawMean(input.vertices, 2)
            /\ buttons[i].dimensions.horizontal = RawExtent(input.vertices, 1)
            /\ buttons[i].dimensions.vertical = RawExtent(input.vertices, 2)

\* twice the canvas coordinates of the pointer, from its window coordinates
\* and the window dimensions MousePosition holds (all whole numbers here)
TwiceCanvasX == 2 * mouse_position.x.a - mouse_position.window_dimensions[1].a
TwiceCanvasY == mouse_position.window_dimensions[2].a - 2 * mouse_position.y.a

\* C13: between answers true exactly when x_left <= canvas_x <= x_right and
\* y_bottom <= canvas_y <= y_top, so a pointer on a bound is inside and a
\* pointer one unit beyond a bound is outside.
C13_BetweenInclusive ==
    last.op = "between" =>
        (last.ret <=> /\ 2 * last.arg.x_left <= TwiceCanvasX
                      /\ TwiceCanvasX <= 2 * last.arg.x_right
                      /\ 2 * last.arg.y_bottom <= TwiceCanvasY
                      /\ TwiceCanvasY <= 2 * last.arg.y_top)

\* a pointer on the upper left corner of the box around the origin is inside
C13_Witness ==
    /\ last.op = "between"
    /\ last.arg = Box(-100, 100, -50, 50)
    /\ TwiceCanvasX = 2 * last.arg.x_left
    /\ TwiceCanvasY = 2 * last.arg.y_top
    /\ last.ret = TRUE

\* C14: after update_from_window_coords(x, y), canvas_x() is x - width/2 and
\* canvas_y() is -(y - height/2), for the width and height MousePosition
\* holds.
C14_CanvasTransform ==
    last.op = "update_from_window_coords" =>
        LET x == last.arg[1]
            y == last.arg[2]
            width == mouse_position.window_dimensions[1].a
            height == mouse_position.window_dimensions[2].a
        IN  /\ last.ret[1] = Rat(2 * x - width, 2)
            /\ last.ret[2] = Rat(height - 2 * y, 2)

\* a pointer below and right of the window midpoint has a positive canvas x
\* and a negative canvas y
C14_Witness ==
    /\ last.op = "update_from_window_coords"
    /\ last.arg = <<501, 351>>
    /\ mouse_position.window_dimensions = <<Num(800), Num(600)>>
    /\ last.ret = <<Num(101), Num(-51)>>

\* the call has answered a Color, not failed
IsColor(ret) == "channels" \in DOMAIN ret
\* the call has failed on a channel out of bounds
IsChannelOutOfBounds(ret) ==
    /\ "panic" \in DOMAIN ret
    /\ ret.panic \in {"r value out of bounds", "g value out of bounds",
                      "b value out of bounds", "a value out of bounds"}

ColorOps == {"with_alpha", "Color::new", "mix"}

\* C15: with_alpha fails on a channel out of bounds exactly when one of its
\* four arguments exceeds 255 and otherwise answers the Color of its
\* arguments; new does the same with alpha 255; every Color that new,
\* with_alpha or mix answers has its four channels in 0..255.
C15_ChannelBounds ==
    /\ last.op = "with_alpha" =>
          IF \E i \in 1..4 : last.arg[i] > 255
          THEN IsChannelOutOfBounds(last.ret)
          ELSE last.ret = [channels |-> last.arg]
    /\ last.op = "Color::new" =>
          IF \E i \in 1..3 : last.arg[i] > 255
          THEN IsChannelOutOfBounds(last.ret)
          ELSE last.ret = [channels |-> <<last.arg[1], last.arg[2], last.arg[3], 255>>]
    /\ (last.op \in ColorOps /\ IsColor(last.ret)) =>
          \A i \in 1..4 : last.ret.channels[i] \in 0..255

\* with_alpha has refused an alpha of 256 behind three channels of 255
C15_Witness ==
    /\ last.op = "with_alpha"
    /\ last.arg = <<255, 255, 255, 256>>
    /\ last.ret = [panic |-> "a value out of bounds"]

\* the one-to-one maps of 1..n onto itself
Perms(n) == {p \in [1..n -> 1..n] : \A j, k \in 1..n : p[j] = p[k] => j = k}

\* C16: mix of a non-empty sequence of colors answers the same for every
\* reordering of the sequence, and mix of a single color answers that color.
C16_MixOrderIndependent ==
    (last.op = "mix" /\ Len(last.arg) > 0) =>
        /\ \A p \in Perms(Len(last.arg)) :
              mix([k \in 1..Len(last.arg) |-> last.arg[p[k]]]) = last.ret
        /\ Len(last.arg) = 1 => last.ret = last.arg[1]

\* three colors whose running pairwise average depends on their order have
\* been mixed
C16_Witness ==
    /\ last.op = "mix"
    /\ last.arg = <<BLACK, WHITE, WHITE>>
    /\ last.ret = [channels |-> <<170, 170, 170, 255>>]

\* the buttons that inhabit the current scene, by registration index
VisibleButtons ==
    {i \in 1..Len(buttons) : buttons[i].inhabiting_scene = cur_scene}

\* C17: a render pass that got its surface texture draws the entities of the
\* current scene in insertion order, then the buttons that inhabit the
\* current scene in registration order, each once, and nothing else.
C17_RenderOrder ==
    (last.op = "render" /\ last.ret = "Ok") =>
        LET drawn == last.drawn
            n == Len(scenes[cur_scene])
        IN  /\ Len(drawn) = n + Cardinality(VisibleButtons)
            /\ \A k \in 1..n :
                  /\ drawn[k].from = cur_scene
                  /\ drawn[k].index = k
                  /\ drawn[k].num_vertices = Len(scenes[cur_scene][k].vertices)
            /\ \A k \in (n + 1)..Len(drawn) :
                  /\ drawn[k].from = "button"
                  /\ drawn[k].index \in VisibleButtons
                  /\ drawn[k].num_vertices = Len(buttons[drawn[k].index].entity.vertices)
            /\ \A j, k \in (n + 1)..Len(drawn) :
                  j < k => drawn[j].index < drawn[k].index
            /\ \A i \in VisibleButtons :
                  \E k \in (n + 1)..Len(drawn) : drawn[k].index = i

\* a pass in Home has drawn the triangle of Home and then the button of Home
C17_Witness ==
    /\ last.op = "render"
    /\ last.ret = "Ok"
    /\ cur_scene = Home
    /\ Len(last.drawn) = 2
    /\ last.drawn[1] = [from |-> Home, index |-> 1, num_vertices |-> 3]
    /\ last.drawn[2] = [from |-> "button", index |-> 1, num_vertices |-> 6]

\* C18: a step changes the current scene only if it is a press of the
\* primary button with a button of the current scene under the pointer; and a
\* call of next_scene or previous_scene changes no field of the state.
C18_SceneChangesOnlyByPress ==
    [][/\ cur_scene' # cur_scene =>
             /\ last'.op = "MouseInput"
             /\ last'.arg = [state |-> "Pressed", button |-> "Left"]
             /\ HitsIn(cur_scene) # {}
       /\ last'.op \in {"next_scene", "previous_scene"} =>
             UNCHANGED <<cur_scene, buttons, scenes, mouse_position, size,
                         config, pc>>]_vars

\* a press of the secondary button with a button of the current scene under
\* the pointer, whose request is another scene, has left the scene as it was
C18_Witness ==
    /\ last.op = "MouseInput"
    /\ last.arg = [state |-> "Pressed", button |-> "Right"]
    /\ cur_scene = last.pre_scene
    /\ \E i \in HitsIn(cur_scene) : buttons[i].scene_request # cur_scene

\* C19: a step in which add_shape or add_button is given a number of
\* vertices other than the shape requires stops the program in a panic and
\* leaves every draw list and the button list as they were.
C19_MalformedShapeAborts ==
    [][(/\ last'.op \in {"add_shape", "add_button"}
        /\ Len(last'.arg.vertices) # Requisite(last'.arg.kind)) =>
          /\ pc' = "panicked"
          /\ last'.panic = "from_shape"
          /\ scenes' = scenes
          /\ buttons' = buttons]_vars

\* add_button has refused a Rectangle of three vertices and the program has
\* stopped, with the button registered before it still the only one
C19_Witness ==
    /\ pc = "panicked"
    /\ last.op = "add_button"
    /\ last.arg.kind = Rectangle
    /\ Len(last.arg.vertices) = 3
    /\ Len(buttons) = 1
    /\ \A s \in SceneName : scenes[s] = <<>>

\* the vertex lies on the rim of the circle at the angle of k whole degrees
OnRimAt(vertex, center, radius, k) ==
    /\ vertex.position[3] = Num(0)
    /\ IF k = 0
       THEN /\ vertex.position[1] = RAdd(center.position[1], radius)
            /\ vertex.position[2] = center.position[2]
       ELSE /\ vertex.position[1] = RTrig(center.position[1], radius, "cos", k)
            /\ vertex.position[2] = RTrig(center.position[2], radius, "sin", k)

\* the t-th triangle of a mesh: the places 3t-2, 3t-1, 3t
TriangleAt(mesh, t) == <<mesh[3 * t - 2], mesh[3 * t - 1], mesh[3 * t]>>

\* the triangle is the center and the rim points at k and k+1 degrees (at
\* 359 and 0 degrees for k = 359), in any order
IsFanTriangle(triangle, center, radius, k) ==
    \E c, a, b \in 1..3 :
        /\ {c, a, b} = {1, 2, 3}
        /\ triangle[c] = center
        /\ OnRimAt(triangle[a], center, radius, k)
        /\ OnRimAt(triangle[b], center, radius, (k + 1) % 360)

\* C20: the mesh of a Circle, taken three vertices at a time, is a closed
\* fan: every triangle is the center and two rim points at adjacent whole
\* degrees, every pair k, k+1 for k in 0..358 is in exactly one triangle,
\* and so is the pair 359, 0.
C20_CircleClosedFan ==
    (last.op = "from_shape" /\ last.arg.kind.tag = "Circle" /\ last.ret.ok) =>
        LET mesh == last.ret.vertices
            center == last.arg.vertices[1]
            radius == last.arg.kind.radius
            triangles == 1..(Len(mesh) \div 3)
        IN  /\ Len(mesh) % 3 = 0
            /\ \A t \in triangles : \E k \in 0..359 :
                  IsFanTriangle(TriangleAt(mesh, t), center, radius, k)
            /\ \A k \in 0..359 :
                  Cardinality({t \in triangles :
                      IsFanTriangle(TriangleAt(mesh, t), center, radius, k)}) = 1

\* a Circle of radius 500 around (0, 0) has been tessellated, and its first
\* triangle closes the seam between 359 and 0 degrees
C20_Witness ==
    /\ last.op = "from_shape"
    /\ last.arg = ShapeInput(Circle(Num(500)), <<V(0, 0, BLUE)>>)
    /\ last.ret.ok
    /\ IsFanTriangle(TriangleAt(last.ret.vertices, 1), V(0, 0, BLUE), Num(500), 359)

\* C21: from_shape answers, for a Rectangle of control vertices v0, v1, v2,
\* v3, the six vertices v0, v1, v2, v2, v3, v0, each as it was given.
C21_RectangleSplit ==
    (/\ last.op = "from_shape"
     /\ last.arg.kind.tag = "Rectangle"
     /\ Len(last.arg.vertices) = 4) =>
        LET v == last.arg.vertices IN
        /\ last.ret.ok
        /\ last.ret.vertices = <<v[1], v[2], v[3], v[3], v[4], v[1]>>

\* the quad of four colors has been split along the diagonal from its red
\* corner to its white corner
C21_Witness ==
    /\ last.op = "from_shape"
    /\ last.arg = ShapeInput(Rectangle, ColoredQuad)
    /\ last.ret.ok
    /\ last.ret.vertices =
          <<V(0, 0, RED), V(0, 100, BLUE), V(100, 100, WHITE),
            V(100, 100, WHITE), V(100, 0, BLACK), V(0, 0, RED)>>

\* the sum of channel i over the colors at the places in S
RECURSIVE SumOfChannel(_, _, _)
SumOfChannel(colors, i, S) ==
    IF S = {} THEN 0
    ELSE LET k == CHOOSE k \in S : TRUE
         IN  colors[k].channels[i] + SumOfChannel(colors, i, S \ {k})

\* the greatest whole q with q * n <= sum
TruncatedQuotient(sum, n) ==
    CHOOSE q \in 0..sum : q * n <= sum /\ (q + 1) * n > sum

\* C22: mix of a non-empty sequence of colors answers a Color, and each of
\* its four channels is the truncated quotient of the sum of that channel
\* over the sequence by the length of the sequence.
C22_MixTruncatedMean ==
    (last.op = "mix" /\ Len(last.arg) > 0) =>
        /\ IsColor(last.ret)
        /\ \A i \in 1..4 :
              last.ret.channels[i] =
                  TruncatedQuotient(SumOfChannel(last.arg, i, 1..Len(last.arg)),
                                    Len(last.arg))

\* black and (1,2,3) with alpha 0 have been mixed: 3/2 is cut to 1 and the
\* alphas 255 and 0 give 127
C22_Witness ==
    /\ last.op = "mix"
    /\ last.arg = <<BLACK, with_alpha(1, 2, 3, 0)>>
    /\ last.ret = [channels |-> <<0, 1, 1, 127>>]

\* C23: mix of no color fails and answers no Color.
C23_MixEmptyFails ==
    (last.op = "mix" /\ Len(last.arg) = 0) =>
        /\ ~IsColor(last.ret)
        /\ "panic" \in DOMAIN last.ret

\* mix has been called with the empty slice and has panicked on its division
C23_Witness ==
    /\ last.op = "mix"
    /\ last.arg = <<>>
    /\ last.ret = [panic |-> "attempt to divide by zero"]

\* C24: in the program as main wires it the current scene is Home or
\* RootPicker, the button of Home asks for RootPicker and the button of
\* RootPicker asks for Home.
C24_MainStaysInTwoScenes ==
    /\ cur_scene \in {Home, RootPicker}
    /\ Len(buttons) >= 1 =>
          /\ buttons[1].inhabiting_scene = Home
          /\ buttons[1].scene_request = RootPicker
    /\ Len(buttons) >= 2 =>
          /\ buttons[2].inhabiting_scene = RootPicker
          /\ buttons[2].scene_request = Home

\* a press on the button of RootPicker has led back to Home
C24_Witness ==
    /\ pc = "run"
    /\ LeftPress
    /\ last.pre_scene = RootPicker
    /\ cur_scene = Home
    /\ Len(buttons) = 2

\* C25: after a primary press the current scene is the scene the press
\* began in, or the scene_request of a button that inhabits that scene and
\* has the pointer in its box.
C25_PressDoesNotChain ==
    LeftPress =>
        \/ cur_scene = last.pre_scene
        \/ \E i \in HitsIn(last.pre_scene) : cur_scene = buttons[i].scene_request

\* a press in Home has entered RootPicker and stopped there, with a button
\* of RootPicker under the pointer that asks for a third scene
C25_Witness ==
    /\ LeftPress
    /\ last.pre_scene = Home
    /\ cur_scene = RootPicker
    /\ \E i \in HitsIn(RootPicker) : buttons[i].scene_request = Grapher

\* C26: after update_from_canvas_coords(cx, cy), canvas_x() answers cx and
\* canvas_y() answers cy.
C26_CanvasRoundTrip ==
    last.op = "update_from_canvas_coords" =>
        last.ret = <<Num(last.arg[1]), Num(last.arg[2])>>

====
